---- MODULE Spec2Model ----
(***************************************************************************)
(* tfmodulescan: walk a directory tree, extract `module "<name>" { ... }`  *)
(* blocks from every .tf file, keep the ones whose source names            *)
(* github.com, and print them as a table.                                  *)
(*                                                                         *)
(* Strings are sequences of one-character strings, so that the prefix,     *)
(* suffix, split and pattern operations act on characters as the Go code   *)
(* does.                                                                   *)
(***************************************************************************)
EXTENDS Integers, Sequences, FiniteSets, TLC

VARIABLES
    pc,          \* position in main: "flags", "lstat", "walk", "walked", "done"
    dirName,     \* base name of the -dir argument (the walk's root)
    excludeDirs, \* the -exclude flag, as given on the command line
    dirs,        \* the file system: paths of the directories under (and incl.) the root
    files,       \* the file system: paths of the non-directory entries
    excluded,    \* main's set of excluded directory names
    todo,        \* WalkDir's pending entries, next to visit first
    modules,     \* main's accumulated []ModuleInfo
    walkErr,     \* the error WalkDir returned ("none" when nil)
    scanned,     \* history: every call of scanTerraformFile, in order
    output,      \* what main printed, in order
    call,        \* unit harness: which function is applied to input
    input,       \* unit harness: the argument
    shape,       \* unit harness: the block bodies a file text was built from
    result       \* unit harness: the value returned

vars == <<pc, dirName, excludeDirs, dirs, files, excluded, todo, modules,
          walkErr, scanned, output, call, input, shape, result>>

walkVars == <<pc, dirName, excludeDirs, dirs, files, excluded, todo, modules,
              walkErr, scanned, output>>

unitVars == <<call, input, shape, result>>

----------------------------------------------------------------------------
(* Bounds of the model.                                                    *)

\* entries (files and directories) beneath the root
MaxEntries == 3

\* module blocks in one generated file text
MaxBlocks == 2

\* key=value tokens in one generated source suffix
MaxTokens == 2

----------------------------------------------------------------------------
(* Go's strings package, on character sequences.                           *)

HasPrefix(s, p) == Len(s) >= Len(p) /\ SubSeq(s, 1, Len(p)) = p

HasSuffix(s, p) == Len(s) >= Len(p) /\ SubSeq(s, Len(s) - Len(p) + 1, Len(s)) = p

TrimPrefix(s, p) == IF HasPrefix(s, p) THEN SubSeq(s, Len(p) + 1, Len(s)) ELSE s

TrimSuffix(s, p) == IF HasSuffix(s, p) THEN SubSeq(s, 1, Len(s) - Len(p)) ELSE s

\* whether s holds p at position i
HasAt(s, i, p) == i + Len(p) - 1 <= Len(s) /\ SubSeq(s, i, i + Len(p) - 1) = p

\* position of the first p in s at or after i, 0 when there is none
IndexFrom(s, i, p) ==
    LET at == {j \in i..(Len(s) - Len(p) + 1) : HasAt(s, j, p)}
    IN  IF at = {} THEN 0 ELSE CHOOSE j \in at : \A k \in at : j <= k

Contains(s, p) == IndexFrom(s, 1, p) # 0

RECURSIVE Split(_, _)
\* strings.Split for a non-empty separator: always at least one part
Split(s, sep) ==
    LET i == IndexFrom(s, 1, sep)
    IN  IF i = 0 THEN <<s>>
        ELSE <<SubSeq(s, 1, i - 1)>> \o Split(SubSeq(s, i + Len(sep), Len(s)), sep)

RECURSIVE Join(_, _)
Join(parts, sep) ==
    IF Len(parts) = 0 THEN <<>>
    ELSE IF Len(parts) = 1 THEN parts[1]
    ELSE parts[1] \o sep \o Join(Tail(parts), sep)

\* the characters \s matches, and strings.TrimSpace trims
Space == {" ", "\t", "\n", "\r", "\f"}

TrimSpace(s) ==
    LET ink == {j \in 1..Len(s) : s[j] \notin Space}
    IN  IF ink = {} THEN <<>>
        ELSE SubSeq(s, CHOOSE j \in ink : \A k \in ink : j <= k,
                       CHOOSE j \in ink : \A k \in ink : j >= k)

----------------------------------------------------------------------------
(* The literals of the program.                                            *)

kwModule == <<"m","o","d","u","l","e">>
kwSource == <<"s","o","u","r","c","e">>
githubCom == <<"g","i","t","h","u","b",".","c","o","m">>
gitPrefix == <<"g","i","t",":",":">>
gitSuffix == <<".","g","i","t">>
refPrefix == <<"r","e","f","=">>
tfSuffix == <<".","t","f">>
quote == "\""

----------------------------------------------------------------------------
(* The two regular expressions of scanTerraformFile.  Every repetition in  *)
(* them is over a character class that excludes the character that must    *)
(* follow it, so a match from a given start is unique and needs no         *)
(* backtracking.                                                           *)

\* first position at or after i whose character is outside cls (Len+1: none)
SkipClass(s, i, cls) ==
    LET out == {j \in i..Len(s) : s[j] \notin cls}
    IN  IF out = {} THEN Len(s) + 1 ELSE CHOOSE j \in out : \A k \in out : j <= k

\* first position at or after i whose character is ch (Len+1: none)
SkipTo(s, i, ch) ==
    LET hit == {j \in i..Len(s) : s[j] = ch}
    IN  IF hit = {} THEN Len(s) + 1 ELSE CHOOSE j \in hit : \A k \in hit : j <= k

NoMatch == [ok |-> FALSE]

\* position of the last ch in s at or after i (Len+1: none)
SkipToLast(s, i, ch) ==
    LET hit == {j \in i..Len(s) : s[j] = ch}
    IN  IF hit = {} THEN Len(s) + 1 ELSE CHOOSE j \in hit : \A k \in hit : j >= k

\* the block pattern with a greedy body, module\s+"([^"]+)"\s*{(.+)}: the
\* body runs to the last closing brace of the text
moduleBlockRegexAtGreedy(s, i) ==
    IF ~HasAt(s, i, kwModule) THEN NoMatch
    ELSE
    LET a == i + Len(kwModule)
        b == SkipClass(s, a, Space)
    IN  IF b = a \/ b > Len(s) \/ s[b] # quote THEN NoMatch
        ELSE
        LET c == SkipTo(s, b + 1, quote)
        IN  IF c = b + 1 \/ c > Len(s) THEN NoMatch
            ELSE
            LET d == SkipClass(s, c + 1, Space)
            IN  IF d > Len(s) \/ s[d] # "{" THEN NoMatch
                ELSE
                LET e == SkipToLast(s, d + 1, "}")
                IN  IF e = d + 1 \/ e > Len(s) THEN NoMatch
                    ELSE [ok |-> TRUE, start |-> i, end |-> e,
                          name |-> SubSeq(s, b + 1, c - 1),
                          body |-> SubSeq(s, d + 1, e - 1)]

\* module\s+"([^"]+)"\s*{([^}]+)}  anchored at position i
moduleBlockRegexAt(s, i) ==
    IF ~HasAt(s, i, kwModule) THEN NoMatch
    ELSE
    LET a == i + Len(kwModule)          \* start of \s+
        b == SkipClass(s, a, Space)     \* the opening quote
    IN  IF b = a \/ b > Len(s) \/ s[b] # quote THEN NoMatch
        ELSE
        LET c == SkipTo(s, b + 1, quote)    \* the closing quote
        IN  IF c = b + 1 \/ c > Len(s) THEN NoMatch
            ELSE
            LET d == SkipClass(s, c + 1, Space)   \* the opening brace
            IN  IF d > Len(s) \/ s[d] # "{" THEN NoMatch
                ELSE
                LET e == SkipTo(s, d + 1, "}")    \* the first closing brace
                IN  IF e = d + 1 \/ e > Len(s) THEN NoMatch
                    ELSE [ok |-> TRUE, start |-> i, end |-> e,
                          name |-> SubSeq(s, b + 1, c - 1),
                          body |-> SubSeq(s, d + 1, e - 1)]

RECURSIVE FindAllFrom(_, _)
\* FindAllStringSubmatch(text, -1): the leftmost match at or after i, then
\* the matches after its end (matches do not overlap)
FindAllFrom(s, i) ==
    LET at == {j \in i..Len(s) : moduleBlockRegexAt(s, j).ok}
    IN  IF at = {} THEN <<>>
        ELSE LET m == moduleBlockRegexAt(s, CHOOSE j \in at : \A k \in at : j <= k)
             IN  <<m>> \o FindAllFrom(s, m.end + 1)

moduleBlockRegex(text) == FindAllFrom(text, 1)

\* source\s*=\s*"([^"]+)"  anchored at position i
sourceRegexAt(s, i) ==
    IF ~HasAt(s, i, kwSource) THEN NoMatch
    ELSE
    LET a == SkipClass(s, i + Len(kwSource), Space)    \* the = sign
    IN  IF a > Len(s) \/ s[a] # "=" THEN NoMatch
        ELSE
        LET b == SkipClass(s, a + 1, Space)            \* the opening quote
        IN  IF b > Len(s) \/ s[b] # quote THEN NoMatch
            ELSE
            LET c == SkipTo(s, b + 1, quote)           \* the closing quote
            IN  IF c = b + 1 \/ c > Len(s) THEN NoMatch
                ELSE [ok |-> TRUE, start |-> i, end |-> c,
                      value |-> SubSeq(s, b + 1, c - 1)]

\* positions of blockBody where the source pattern matches
SourceMatches(s) == {i \in 1..Len(s) : sourceRegexAt(s, i).ok}

\* the source pattern taking the last match of the body instead of the first
sourceRegexLast(blockBody) ==
    LET at == SourceMatches(blockBody)
    IN  IF at = {} THEN NoMatch
        ELSE sourceRegexAt(blockBody, CHOOSE i \in at : \A k \in at : i >= k)

\* FindStringSubmatch(blockBody): the leftmost match, or none
sourceRegex(blockBody) ==
    LET at == SourceMatches(blockBody)
    IN  IF at = {} THEN NoMatch
        ELSE sourceRegexAt(blockBody, CHOOSE i \in at : \A k \in at : i <= k)

----------------------------------------------------------------------------
(* parseGitHubSource, extractModuleNameFromGitRepo, scanTerraformFile.     *)

RECURSIVE RefOf(_, _)
\* the loop over the tokens of the query: every ref= token assigns ref
RefOf(kvs, ref) ==
    IF Len(kvs) = 0 THEN ref
    ELSE RefOf(Tail(kvs), IF HasPrefix(Head(kvs), refPrefix)
                          THEN TrimPrefix(Head(kvs), refPrefix)
                          ELSE ref)

\* parseGitHubSource without the split at ?: the query stays in the location
parseGitHubSourceKeepQuery(source) ==
    LET whole == TrimPrefix(source, gitPrefix)
        parts == Split(whole, <<"?">>)
        ref   == IF Len(parts) > 1
                 THEN RefOf(Split(parts[2], <<"&">>), <<>>)
                 ELSE <<>>
    IN  [baseURL |-> TrimSuffix(whole, gitSuffix), ref |-> ref]

parseGitHubSource(source) ==
    LET parts == Split(TrimPrefix(source, gitPrefix), <<"?">>)
        ref   == IF Len(parts) > 1
                 THEN RefOf(Split(parts[2], <<"&">>), <<>>)
                 ELSE <<>>
    IN  [baseURL |-> TrimSuffix(parts[1], gitSuffix), ref |-> ref]

extractModuleNameFromGitRepo(gitRepo) ==
    LET parts == Split(gitRepo, <<"/">>)
    IN  IF Len(parts) > 1 THEN Join(Tail(parts), <<"/">>) ELSE gitRepo

\* the body of the loop over the matches: the records one match adds
ScanMatch(match) ==
    LET sourceMatch == sourceRegex(match.body)
    IN  IF sourceMatch.ok /\ Contains(sourceMatch.value, githubCom)
        THEN LET p == parseGitHubSource(sourceMatch.value)
             IN  <<[ResourceName |-> match.name,
                    ModuleName   |-> extractModuleNameFromGitRepo(p.baseURL),
                    GitHubRepo   |-> p.baseURL,
                    Version      |-> p.ref]>>
        ELSE <<>>

RECURSIVE ScanMatches(_)
ScanMatches(matches) ==
    IF Len(matches) = 0 THEN <<>>
    ELSE ScanMatch(Head(matches)) \o ScanMatches(Tail(matches))

\* scanTerraformFile after a successful read of text
scanTerraformFile(text) == ScanMatches(moduleBlockRegex(text))

----------------------------------------------------------------------------
(* Inputs of the unit specification: source strings and file texts.        *)

RECURSIVE SeqsUpTo(_, _)
\* the sequences over S of length at most n
SeqsUpTo(S, n) ==
    IF n = 0 THEN {<<>>}
    ELSE LET shorter == SeqsUpTo(S, n - 1)
         IN  shorter \cup {Append(q, x) : q \in shorter, x \in S}

SourcePrefixes == {<<>>, gitPrefix}

SourceBases ==
    { <<"h","t","t","p","s",":","/","/","g","i","t","h","u","b",".","c","o","m","/","o","/","r",".","g","i","t">>,
      <<"g","i","t","h","u","b",".","c","o","m","/","o","/","r">>,
      <<"h","t","t","p","s",":","/","/","e",".","x","/","r",".","g","i","t">>,
      <<"r">> }

QueryTokens ==
    { <<"r","e","f","=","a">>, <<"r","e","f","=","b">>, <<"d","e","p","t","h","=","1">>, <<"x","r","e","f","=","c">>,
      <<"r","e","f","=","a","?","b">>, <<"r","e","f","=","g","i","t","h","u","b",".","c","o","m">> }

Sources ==
    { pre \o base \o (IF Len(toks) = 0 THEN <<>> ELSE <<"?">> \o Join(toks, <<"&">>)) :
        pre \in SourcePrefixes, base \in SourceBases,
        toks \in SeqsUpTo(QueryTokens, MaxTokens) }

\* the source value of the documented example
exampleSource == <<"g","i","t",":",":","h","t","t","p","s",":","/","/","g","i","t","h","u","b",".","c","o","m","/","o","r","g","/","r","e","p","o",".","g","i","t","?","r","e","f","=","v","1",".","2",".","0">>

\* block bodies: what stands between the braces of a generated block
bodyGithub       == <<" ","s","o","u","r","c","e"," ","="," ","\"","g","i","t","h","u","b",".","c","o","m","/","o","/","r","?","r","e","f","=","v","1","\""," ">>
bodyLocal        == <<"s","o","u","r","c","e","=","\"",".","/","m","\"">>
bodyNoSource     == <<" ","c","o","u","n","t"," ","="," ","1"," ">>
bodyNestedFirst  == <<" ","p"," ","="," ","{"," ","a"," ","="," ","1"," ","}"," ","s","o","u","r","c","e"," ","="," ","\"","g","i","t","h","u","b",".","c","o","m","/","o","/","r","\""," ">>
bodyNestedLast   == <<" ","s","o","u","r","c","e"," ","="," ","\"","g","i","t","h","u","b",".","c","o","m","/","o","/","r","\""," ","p"," ","="," ","{"," ","a"," ","="," ","1"," ","}"," ">>
bodyLocalFirst   == <<" ","#"," ","s","o","u","r","c","e"," ","="," ","\"",".","/","m","\"","\n"," ","s","o","u","r","c","e"," ","="," ","\"","g","i","t","h","u","b",".","c","o","m","/","o","/","r","\""," ">>
bodyGithubFirst  == <<" ","s","o","u","r","c","e"," ","="," ","\"","g","i","t","h","u","b",".","c","o","m","/","o","/","r","\""," ","#"," ","s","o","u","r","c","e"," ","="," ","\"",".","/","m","\""," ">>
bodyEmpty        == <<>>
bodySuffixOnly   == <<" ","s","o","u","r","c","e"," ","="," ","\"","g","i","t",":",":","h","t","t","p","s",":","/","/","e",".","x","/","r",".","g","i","t","?","r","e","f","=","g","i","t","h","u","b",".","c","o","m","\""," ">>
bodyExample      == <<" ","s","o","u","r","c","e"," ","="," ","\"">> \o exampleSource \o <<"\""," ">>

Bodies ==
    { bodyGithub, bodyLocal, bodyNoSource, bodyNestedFirst, bodyNestedLast,
      bodyLocalFirst, bodyGithubFirst, bodyEmpty, bodySuffixOnly, bodyExample }

BlockNames == <<<<"a">>, <<"b">>, <<"c">>, <<"d">>>>

\* the k-th block of a generated text, with the given body
BlockText(k, body) ==
    kwModule \o <<" ","\"">> \o BlockNames[((k - 1) % Len(BlockNames)) + 1]
             \o <<"\""," ","{">> \o body \o <<"}">>

\* a block whose name is not quoted: the block pattern does not match it
unquotedBlock == <<"m","o","d","u","l","e"," ","a"," ","{"," ","s","o","u","r","c","e"," ","="," ","\"","g","i","t","h","u","b",".","c","o","m","/","o","/","r","\""," ","}">>

RECURSIVE TextOf(_, _)
\* the text of a sequence of bodies (<<"raw">> stands for unquotedBlock)
TextOf(bodies, k) ==
    IF Len(bodies) = 0 THEN <<>>
    ELSE (IF Head(bodies) = <<"raw">> THEN unquotedBlock
          ELSE BlockText(k, Head(bodies)))
         \o <<"\n">> \o TextOf(Tail(bodies), k + 1)

\* what a generated text is built from: at most MaxBlocks blocks
Shapes == SeqsUpTo(Bodies \cup {<<"raw">>}, MaxBlocks)

----------------------------------------------------------------------------
(* The file system the program runs on.  A path is the sequence of the     *)
(* names from the root down; an entry's name (d.Name()) is its last one.   *)

Last(path) == path[Len(path)]

\* names an entry beneath the root may have, in the byte order ReadDir sorts by
EntryNames == <<<<"a",".","t","f">>, <<"b",".","t","f">>, <<"v">>>>

\* base names of the -dir argument
RootNames == {<<".">>, <<"v">>}

\* values of the -exclude flag
ExcludeFlags == {<<>>, <<"v">>, <<" ","v"," ",",",",","a",".","t","f">>}

\* what a readable .tf file may hold: no record, one record, two records
FileTexts ==
    { TextOf(<<bodyNoSource>>, 1),
      TextOf(<<bodyGithub>>, 1),
      TextOf(<<bodyLocal, bodyGithub, bodyNestedLast>>, 1) }

NameSet == {EntryNames[i] : i \in 1..Len(EntryNames)}

RECURSIVE TreesUpTo(_, _)
\* the trees with root directory <<root>> and at most n entries beneath it
TreesUpTo(root, n) ==
    IF n = 0 THEN {[dirs |-> {<<root>>}, files |-> {}]}
    ELSE LET smaller == TreesUpTo(root, n - 1)
             free(t) == {Append(p, nm) : p \in t.dirs, nm \in NameSet}
                            \ (t.dirs \cup t.files)
         IN  smaller \cup UNION { UNION { { [dirs |-> t.dirs \cup {q}, files |-> t.files],
                                             [dirs |-> t.dirs, files |-> t.files \cup {q}] }
                                           : q \in free(t) }
                                  : t \in smaller }

\* the entries of directory path
Children(path) ==
    {q \in dirs \cup files : Len(q) = Len(path) + 1 /\ SubSeq(q, 1, Len(path)) = path}

RECURSIVE InNameOrder(_, _)
\* os.ReadDir: the entries of a directory sorted by file name
InNameOrder(path, i) ==
    IF i > Len(EntryNames) THEN <<>>
    ELSE (IF Append(path, EntryNames[i]) \in Children(path)
          THEN <<Append(path, EntryNames[i])>> ELSE <<>>)
         \o InNameOrder(path, i + 1)

ReadDir(path) == InNameOrder(path, 1)

----------------------------------------------------------------------------
(* main.                                                                   *)

RECURSIVE TrimmedNames(_)
\* lines 36-41: the non-empty trimmed items of the comma-separated flag
TrimmedNames(items) ==
    IF Len(items) = 0 THEN {}
    ELSE (IF TrimSpace(Head(items)) # <<>> THEN {TrimSpace(Head(items))} ELSE {})
         \cup TrimmedNames(Tail(items))

ExcludedOf(flag) == TrimmedNames(Split(flag, <<",">>))

\* printTable: the header and one row per record, in order
printTable(ms) ==
    [kind   |-> "table",
     header |-> <<"Resource Name", "Module Name", "GitHub Repo", "Version">>,
     rows   |-> [i \in 1..Len(ms) |->
                   <<ms[i].ResourceName, ms[i].ModuleName, ms[i].GitHubRepo, ms[i].Version>>]]

\* the found records put in front of modules instead of behind
PrependFound(ms, found) == found \o ms

\* what line 61 makes of modules
AppendFound(ms, found) == ms \o found

NoUnit == call = "none" /\ input = <<>> /\ shape = <<>> /\ result = <<>>

Init ==
    /\ pc = "flags"
    /\ dirName \in RootNames
    /\ excludeDirs \in ExcludeFlags
    /\ \E t \in TreesUpTo(dirName, MaxEntries) : dirs = t.dirs /\ files = t.files
    /\ excluded = {}
    /\ todo = <<>>
    /\ modules = <<>>
    /\ walkErr = "none"
    /\ scanned = <<>>
    /\ output = <<>>
    /\ NoUnit

\* lines 35-41
ParseFlags ==
    /\ pc = "flags"
    /\ excluded' = ExcludedOf(excludeDirs)
    /\ pc' = "lstat"
    /\ UNCHANGED <<dirName, excludeDirs, dirs, files, todo, modules, walkErr,
                   scanned, output, unitVars>>

\* WalkDir's Lstat of the root; on failure the callback returns the error
LstatRoot ==
    /\ pc = "lstat"
    /\ \/ /\ todo' = <<<<dirName>>>>
          /\ pc' = "walk"
          /\ UNCHANGED <<walkErr, scanned>>
       \/ /\ walkErr' = "lstat"
          /\ scanned' = Append(scanned, [op |-> "lstat", path |-> <<dirName>>,
                                         ok |-> FALSE, text |-> <<>>])
          /\ pc' = "walked"
          /\ UNCHANGED todo
    /\ UNCHANGED <<dirName, excludeDirs, dirs, files, excluded, modules, output, unitVars>>

Visiting == pc = "walk" /\ todo # <<>>

\* the exclusion test without d.IsDir(): any entry with an excluded name
IsExcludedEntry(path) == Last(path) \in excluded

\* line 51: a directory whose name is excluded returns SkipDir
IsExcludedDir(path) == path \in dirs /\ Last(path) \in excluded

\* line 56: a non-directory whose name ends in .tf
IsTerraformFile(path) == path \notin dirs /\ HasSuffix(Last(path), tfSuffix)

SkipExcluded ==
    /\ Visiting
    /\ IsExcludedDir(Head(todo))
    /\ todo' = Tail(todo)
    /\ UNCHANGED <<pc, dirName, excludeDirs, dirs, files, excluded, modules, walkErr,
                   scanned, output, unitVars>>

\* the callback on a .tf file that can be read
ScanFile ==
    /\ Visiting
    /\ ~IsExcludedDir(Head(todo))
    /\ IsTerraformFile(Head(todo))
    /\ \E text \in FileTexts :
          /\ modules' = AppendFound(modules, scanTerraformFile(text))
          /\ scanned' = Append(scanned, [op |-> "readfile", path |-> Head(todo),
                                         ok |-> TRUE, text |-> text])
    /\ todo' = Tail(todo)
    /\ UNCHANGED <<pc, dirName, excludeDirs, dirs, files, excluded, walkErr,
                   output, unitVars>>

\* a failed read that is swallowed: the callback returns nil and the walk goes on
ScanFileErrorIgnored ==
    /\ Visiting
    /\ ~IsExcludedDir(Head(todo))
    /\ IsTerraformFile(Head(todo))
    /\ scanned' = Append(scanned, [op |-> "readfile", path |-> Head(todo),
                                   ok |-> FALSE, text |-> <<>>])
    /\ todo' = Tail(todo)
    /\ UNCHANGED <<pc, dirName, excludeDirs, dirs, files, excluded, modules, walkErr,
                   output, unitVars>>

\* the callback on a .tf file whose read fails: the error ends the walk
ScanFileError ==
    /\ Visiting
    /\ ~IsExcludedDir(Head(todo))
    /\ IsTerraformFile(Head(todo))
    /\ walkErr' = "readfile"
    /\ scanned' = Append(scanned, [op |-> "readfile", path |-> Head(todo),
                                   ok |-> FALSE, text |-> <<>>])
    /\ pc' = "walked"
    /\ UNCHANGED <<dirName, excludeDirs, dirs, files, excluded, todo, modules,
                   output, unitVars>>

\* the callback on any other non-directory returns nil
VisitOther ==
    /\ Visiting
    /\ Head(todo) \notin dirs
    /\ ~IsTerraformFile(Head(todo))
    /\ todo' = Tail(todo)
    /\ UNCHANGED <<pc, dirName, excludeDirs, dirs, files, excluded, modules, walkErr,
                   scanned, output, unitVars>>

\* the callback on a directory that is not excluded returns nil, and WalkDir
\* reads the directory and visits its entries next
EnterDir ==
    /\ Visiting
    /\ Head(todo) \in dirs
    /\ ~IsExcludedDir(Head(todo))
    /\ todo' = ReadDir(Head(todo)) \o Tail(todo)
    /\ scanned' = Append(scanned, [op |-> "readdir", path |-> Head(todo),
                                   ok |-> TRUE, text |-> <<>>])
    /\ UNCHANGED <<pc, dirName, excludeDirs, dirs, files, excluded, modules, walkErr,
                   output, unitVars>>

\* ReadDir fails: WalkDir calls the callback with the error, which returns it
ReadDirError ==
    /\ Visiting
    /\ Head(todo) \in dirs
    /\ ~IsExcludedDir(Head(todo))
    /\ walkErr' = "readdir"
    /\ scanned' = Append(scanned, [op |-> "readdir", path |-> Head(todo),
                                   ok |-> FALSE, text |-> <<>>])
    /\ pc' = "walked"
    /\ UNCHANGED <<dirName, excludeDirs, dirs, files, excluded, todo, modules,
                   output, unitVars>>

\* WalkDir has returned
Walked == pc = "walked" \/ (pc = "walk" /\ todo = <<>>)

\* lines 66-69
PrintError ==
    /\ Walked
    /\ walkErr # "none"
    /\ output' = Append(output, [kind |-> "error"])
    /\ pc' = "done"
    /\ UNCHANGED <<dirName, excludeDirs, dirs, files, excluded, todo, modules,
                   walkErr, scanned, unitVars>>

\* the no-modules branch without its return: printTable runs as well
PrintNoModulesFallsThrough ==
    /\ Walked
    /\ walkErr = "none"
    /\ Len(modules) = 0
    /\ output' = output \o <<[kind |-> "nomodules"], printTable(modules)>>
    /\ pc' = "done"
    /\ UNCHANGED <<dirName, excludeDirs, dirs, files, excluded, todo, modules,
                   walkErr, scanned, unitVars>>

\* lines 71-74
PrintNoModules ==
    /\ Walked
    /\ walkErr = "none"
    /\ Len(modules) = 0
    /\ output' = Append(output, [kind |-> "nomodules"])
    /\ pc' = "done"
    /\ UNCHANGED <<dirName, excludeDirs, dirs, files, excluded, todo, modules,
                   walkErr, scanned, unitVars>>

\* line 76
PrintTable ==
    /\ Walked
    /\ walkErr = "none"
    /\ Len(modules) # 0
    /\ output' = Append(output, printTable(modules))
    /\ pc' = "done"
    /\ UNCHANGED <<dirName, excludeDirs, dirs, files, excluded, todo, modules,
                   walkErr, scanned, unitVars>>

Next ==
    \/ ParseFlags
    \/ LstatRoot
    \/ SkipExcluded
    \/ ScanFile
    \/ ScanFileError
    \/ VisitOther
    \/ EnterDir
    \/ ReadDirError
    \/ PrintError
    \/ PrintNoModules
    \/ PrintTable

Spec == Init /\ [][Next]_vars

----------------------------------------------------------------------------
(* The unit specification: one function applied to one input.              *)

NoWalk ==
    /\ pc = "unit" /\ dirName = <<>> /\ excludeDirs = <<>>
    /\ dirs = {} /\ files = {} /\ excluded = {} /\ todo = <<>>
    /\ modules = <<>> /\ walkErr = "none" /\ scanned = <<>> /\ output = <<>>

InitUnit ==
    /\ NoWalk
    /\ result = <<>>
    /\ \/ call = "parse" /\ input \in Sources /\ shape = <<>>
       \/ /\ call = "scan"
          /\ shape \in Shapes
          /\ input = TextOf(shape, 1)

\* lines 101-102: parseGitHubSource, then extractModuleNameFromGitRepo
ParseCall ==
    /\ call = "parse"
    /\ call' = "parsed"
    /\ result' = LET p == parseGitHubSource(input)
                 IN  <<[ResourceName |-> <<>>,
                        ModuleName   |-> extractModuleNameFromGitRepo(p.baseURL),
                        GitHubRepo   |-> p.baseURL,
                        Version      |-> p.ref]>>
    /\ UNCHANGED <<input, shape, walkVars>>

ScanCall ==
    /\ call = "scan"
    /\ call' = "scanned"
    /\ result' = scanTerraformFile(input)
    /\ UNCHANGED <<input, shape, walkVars>>

NextUnit == ParseCall \/ ScanCall

SpecUnit == InitUnit /\ [][NextUnit]_vars


----------------------------------------------------------------------------
(* What the claims speak of.                                               *)

\* whether kv is a token whose key is ref
IsRefToken(kv) == HasPrefix(kv, refPrefix)

\* the text of source after its first ?, once a leading git:: is removed
\* (<<>> when there is no ?)
SuffixOf(source) ==
    LET rest == TrimPrefix(source, gitPrefix)
        q    == IndexFrom(rest, 1, <<"?">>)
    IN  IF q = 0 THEN <<>> ELSE SubSeq(rest, q + 1, Len(rest))

\* the text of source before its first ?, once a leading git:: is removed
BaseOf(source) ==
    LET rest == TrimPrefix(source, gitPrefix)
        q    == IndexFrom(rest, 1, <<"?">>)
    IN  IF q = 0 THEN rest ELSE SubSeq(rest, 1, q - 1)

\* the ref tokens of the whole suffix, in order
RefTokensOf(source) == SelectSeq(Split(SuffixOf(source), <<"&">>), IsRefToken)

\* a matched block one of whose source assignments names github.com
AnySourceIsGithub(m) ==
    \E i \in SourceMatches(m.body) : Contains(sourceRegexAt(m.body, i).value, githubCom)

\* the value of the first source assignment of a matched block
FirstSourceOf(m) ==
    LET at == SourceMatches(m.body)
    IN  sourceRegexAt(m.body, CHOOSE i \in at : \A k \in at : i <= k).value

\* a matched block whose first source assignment names github.com
FirstSourceIsGithub(m) ==
    SourceMatches(m.body) # {} /\ Contains(FirstSourceOf(m), githubCom)

\* the matched blocks of text that qualify, in order of appearance
Qualifying(text) == SelectSeq(moduleBlockRegex(text), FirstSourceIsGithub)

NamesOfMatches(ms) == [i \in 1..Len(ms) |-> ms[i].name]

NamesOfRecords(rs) == [i \in 1..Len(rs) |-> rs[i].ResourceName]

\* the name the k-th generated block carries
NameOfBlock(k) == BlockNames[((k - 1) % Len(BlockNames)) + 1]

\* the records of rs that carry the k-th generated block's name
RecordsOfBlock(rs, k) == {i \in 1..Len(rs) : rs[i].ResourceName = NameOfBlock(k)}

\* the calls of scanTerraformFile so far, in order
ScanCalls == SelectSeq(scanned, LAMBDA r : r.op = "readfile")

\* the files passed to scanTerraformFile so far
ScannedPaths == {ScanCalls[i].path : i \in 1..Len(ScanCalls)}

\* the .tf files of the tree none of whose ancestor directories is excluded
Scannable ==
    {f \in files : /\ HasSuffix(Last(f), tfSuffix)
                   /\ \A k \in 1..(Len(f) - 1) : f[k] \notin excluded}

\* the .tf files of the tree that lie beneath an excluded directory
Pruned ==
    {f \in files : /\ HasSuffix(Last(f), tfSuffix)
                   /\ \E k \in 1..(Len(f) - 1) : f[k] \in excluded}

RECURSIVE QualifyingNamesOf(_)
\* the names of the qualifying blocks of the files read, in reading order
QualifyingNamesOf(calls) ==
    IF Len(calls) = 0 THEN <<>>
    ELSE (IF Head(calls).ok THEN NamesOfMatches(Qualifying(Head(calls).text)) ELSE <<>>)
         \o QualifyingNamesOf(Tail(calls))

\* the position of an entry name in the byte order of names
RankOf(nm) == CHOOSE i \in 1..Len(EntryNames) : EntryNames[i] = nm

RECURSIVE WalkedBefore(_, _)
\* whether WalkDir visits p before q: a directory before its entries, the
\* entries of a directory by name
WalkedBefore(p, q) ==
    IF Len(p) = 0 THEN Len(q) > 0
    ELSE IF Len(q) = 0 THEN FALSE
    ELSE IF Head(p) = Head(q) THEN WalkedBefore(Tail(p), Tail(q))
    ELSE RankOf(Head(p)) < RankOf(Head(q))

ErrorLine == [kind |-> "error"]

NoModulesLine == [kind |-> "nomodules"]

----------------------------------------------------------------------------
(* The claims.                                                             *)

\* C1: the block whose source is git::https://github.com/org/repo.git?ref=v1.2.0
\* yields the record with repository location https://github.com/org/repo,
\* version v1.2.0 and module name org/repo.
C1_ExampleRecord ==
    (call = "scanned" /\ shape = <<bodyExample>>)
        => result = <<[ResourceName |-> NameOfBlock(1),
                       ModuleName   |-> <<"o","r","g","/","r","e","p","o">>,
                       GitHubRepo   |-> <<"h","t","t","p","s",":","/","/","g","i","t","h","u","b",".","c","o","m","/","o","r","g","/","r","e","p","o">>,
                       Version      |-> <<"v","1",".","2",".","0">>]>>

\* C2: the files passed to scanTerraformFile are the .tf files with no excluded
\* ancestor directory: no other entry is ever passed (nothing beneath an
\* excluded directory, at any depth), none is passed twice, and when the
\* walk has returned without an I/O error every one of them has been passed.
C2_ScansScannable ==
    /\ ScannedPaths \subseteq Scannable
    /\ \A i, j \in 1..Len(ScanCalls) : ScanCalls[i].path = ScanCalls[j].path => i = j
    /\ (Walked /\ walkErr = "none") => ScannedPaths = Scannable

C2_Witness ==
    /\ pc = "done" /\ walkErr = "none"
    /\ Pruned # {}
    /\ ScannedPaths # {}

\* C3: with several ref tokens in the suffix, the version is the value of the
\* first of them.
C3_FirstRefWins ==
    (call = "parsed" /\ ~Contains(SuffixOf(input), <<"?">>)
                     /\ Len(RefTokensOf(input)) > 1)
        => result[1].Version = TrimPrefix(RefTokensOf(input)[1], refPrefix)

\* C4: the source is split at its first ? only: the location is the text
\* before it, the suffix all of the text after it, so a ref token keeps its
\* value up to the next & or the end.
C4_SplitAtFirstQuestionMark ==
    call = "parsed"
        => /\ result[1].GitHubRepo = TrimSuffix(BaseOf(input), gitSuffix)
           /\ Len(RefTokensOf(input)) = 1
                => result[1].Version = TrimPrefix(RefTokensOf(input)[1], refPrefix)

\* C5: a failed read is the last thing the walk does: nothing is read after
\* it, the only output is the error message, and neither the table nor the
\* no-modules message is printed, whatever modules holds.
C5_ErrorStopsRun ==
    \A i \in 1..Len(scanned) :
        ~scanned[i].ok
            => /\ i = Len(scanned)
               /\ walkErr # "none"
               /\ pc \in {"walked", "done"}
               /\ output = IF pc = "done" THEN <<ErrorLine>> ELSE <<>>

C5_Witness ==
    /\ pc = "done"
    /\ walkErr = "readfile"
    /\ Len(modules) > 0
    /\ output = <<ErrorLine>>

\* C6: after a walk without error exactly one thing is printed: the
\* no-modules message when modules is empty (and no table), else the table of
\* all the records (and no message); nothing is printed before.
C6_OneOutput ==
    /\ pc # "done" => output = <<>>
    /\ (pc = "done" /\ walkErr = "none")
          => /\ Len(output) = 1
             /\ Len(modules) = 0 => output[1] = NoModulesLine
             /\ Len(modules) # 0
                  => /\ output[1].kind = "table"
                     /\ Len(output[1].rows) = Len(modules)
                     /\ \A i \in 1..Len(modules) :
                           output[1].rows[i] = <<modules[i].ResourceName, modules[i].ModuleName,
                                                 modules[i].GitHubRepo, modules[i].Version>>

C6_Witness ==
    /\ pc = "done"
    /\ output = <<NoModulesLine>>
    /\ \E i \in 1..Len(ScanCalls) : ScanCalls[i].ok

\* whether sequence a is an initial part of sequence b
IsPrefixOf(a, b) == Len(a) <= Len(b) /\ SubSeq(b, 1, Len(a)) = a

\* what C7 says of each state
RecordsInOrder ==
    /\ NamesOfRecords(modules) = QualifyingNamesOf(ScanCalls)
    /\ \A i, j \in 1..Len(ScanCalls) :
          i < j => WalkedBefore(ScanCalls[i].path, ScanCalls[j].path)
    /\ (pc = "done" /\ walkErr = "none" /\ Len(modules) # 0)
          => /\ Len(output[1].rows) = Len(QualifyingNamesOf(ScanCalls))
             /\ \A i \in 1..Len(modules) :
                   output[1].rows[i] = <<modules[i].ResourceName, modules[i].ModuleName,
                                         modules[i].GitHubRepo, modules[i].Version>>

\* C7: modules holds, in the order the files were walked and in each file's
\* order of appearance, one record per qualifying block of the files read,
\* duplicates included; a step only appends to modules, leaving the records
\* it holds as they are; the table has one row per record in that order.
C7_RecordsInOrder ==
    []RecordsInOrder /\ [][IsPrefixOf(modules, modules')]_vars

C7_Witness ==
    /\ pc = "done" /\ walkErr = "none"
    /\ Len(ScanCalls) > 1
    /\ Len(modules) > 2
    /\ \E i, j \in 1..Len(modules) : i < j /\ modules[i] = modules[j]
    /\ \E i, j \in 1..Len(modules) : modules[i].ResourceName # modules[j].ResourceName

\* C8 as stated: a matched block yields one record exactly when its body holds
\* a source assignment whose value contains github.com.
C8_AnySourceDecides ==
    call = "scanned"
        => NamesOfRecords(result)
               = NamesOfMatches(SelectSeq(moduleBlockRegex(input), AnySourceIsGithub))

\* C8 as amended: a matched block yields one record exactly when the first
\* source assignment of its body has a value that contains github.com, and
\* none otherwise, whatever the other blocks of the file are.
C8_FirstSourceDecides ==
    call = "scanned"
        => /\ NamesOfRecords(result) = NamesOfMatches(Qualifying(input))
           /\ \A i \in 1..Len(result) :
                 result[i].GitHubRepo
                     = TrimSuffix(BaseOf(FirstSourceOf(Qualifying(input)[i])), gitSuffix)

C8_Witness ==
    /\ call = "scanned"
    /\ shape = <<bodyLocalFirst, bodyGithubFirst>>
    /\ Len(moduleBlockRegex(input)) = 2
    /\ NamesOfRecords(result) = <<NameOfBlock(2)>>

\* C9: the body of a matched block runs from its opening brace to the first }
\* after it; a block whose only source assignment follows a nested { ... }
\* yields no record, one whose source assignment precedes it yields one.
C9_BodyEndsAtFirstBrace ==
    call = "scanned"
        => /\ \A i \in 1..Len(moduleBlockRegex(input)) :
                 LET m == moduleBlockRegex(input)[i]
                     open == m.end - Len(m.body) - 1
                 IN  /\ input[open] = "{"
                     /\ m.end = SkipTo(input, open + 1, "}")
                     /\ m.body = SubSeq(input, open + 1, m.end - 1)
           /\ \A k \in 1..Len(shape) :
                 /\ shape[k] = bodyNestedFirst => RecordsOfBlock(result, k) = {}
                 /\ shape[k] = bodyNestedLast => Cardinality(RecordsOfBlock(result, k)) = 1

C9_Witness ==
    /\ call = "scanned"
    /\ shape = <<bodyNestedFirst, bodyNestedLast>>
    /\ NamesOfRecords(result) = <<NameOfBlock(2)>>

\* C10: no record's repository location contains ?, no record's version
\* contains ? or &; and a source with github.com only after its first ? still
\* yields a record, whose repository location does not contain github.com.
C10_LocationAndVersionShape ==
    /\ \A i \in 1..Len(result) :
          /\ ~Contains(result[i].GitHubRepo, <<"?">>)
          /\ ~Contains(result[i].Version, <<"?">>)
          /\ ~Contains(result[i].Version, <<"&">>)
    /\ \A i \in 1..Len(modules) :
          /\ ~Contains(modules[i].GitHubRepo, <<"?">>)
          /\ ~Contains(modules[i].Version, <<"?">>)
          /\ ~Contains(modules[i].Version, <<"&">>)
    /\ (call = "parsed" /\ Contains(SuffixOf(input), githubCom)
                         /\ ~Contains(BaseOf(input), githubCom))
          => ~Contains(result[1].GitHubRepo, githubCom)
    /\ call = "scanned"
          => \A k \in 1..Len(shape) :
                shape[k] = bodySuffixOnly
                    => \E i \in RecordsOfBlock(result, k) :
                          ~Contains(result[i].GitHubRepo, githubCom)

C10_Witness ==
    /\ call = "scanned"
    /\ \E i \in 1..Len(result) :
          /\ result[i].Version = githubCom
          /\ ~Contains(result[i].GitHubRepo, githubCom)

====
